---- MODULE Spec2Model ----
(***************************************************************************)
(* rup ("jq for html"): the css selector parser (src/parser/mod.rs) and    *)
(* the tree matcher (src/filter/mod.rs).                                   *)
(*                                                                         *)
(* Strings are sequences of one-character strings, so that the character   *)
(* scans of the parser and the string tests of the matcher (contains,      *)
(* starts_with, ends_with, split_whitespace) are computed as the code      *)
(* computes them.  Option<T> is the empty sequence (None) or a sequence of *)
(* one element (Some).                                                     *)
(***************************************************************************)
EXTENDS Naturals, Sequences, FiniteSets, TLC

VARIABLES
    content,     \* main: the bytes read from stdin, as the document they describe
    args,        \* main: the chains of the selector expressions still to evaluate
    tree,        \* filter: the Rc<Node> tree built by parse_document for the last call
    selectors,   \* filter: the chain of the last call
    nodes,       \* main: the Vec<Rc<Node>> the last filter call returned
    visits,      \* the filter_matching_nodes calls of the last pass, in call order
    panicked,    \* TRUE when the last pass hit an unwrap of None
    ran,         \* TRUE once filter has been called
    prev,        \* the result of the preceding filter call, kept when it had the same chain
    output,      \* main: what was printed so far, one block per expression evaluated
    expression,  \* parse: its argument
    parsed,      \* parse: what the last call returned
    attrs_in,    \* is_matching_selector_attributes: the attribute list of the element
    preds_in,    \* is_matching_selector_attributes: the predicate list of the selector
    position_in, \* is_matching_selector_pseudo_class: the sibling position
    verdict      \* the outcome of the three tests on these inputs

vars == <<content, args, tree, selectors, nodes, visits, panicked, ran, prev, output,
          expression, parsed, attrs_in, preds_in, position_in, verdict>>

matcher_vars ==
    <<content, args, tree, selectors, nodes, visits, panicked, ran, prev, output>>
parser_vars == <<expression, parsed>>
test_vars == <<attrs_in, preds_in, position_in, verdict>>

(***************************************************************************)
(* Bounds of the model.                                                    *)
(***************************************************************************)
MaxNodes == 3      \* nodes of a document below the Document root
MaxChain == 2      \* selectors of a chain given to the matcher
MaxLen == 3        \* characters of an expression given to the parser
MaxAttrs == 2      \* attribute entries of an element given to the predicate tests
MaxPreds == 2      \* predicates of a selector given to the predicate tests

(***************************************************************************)
(* Option and string helpers.                                              *)
(***************************************************************************)
None == <<>>
Some(x) == <<x>>
IsSome(o) == o # <<>>
Unwrapped(o) == o[1]

s_div == <<"d", "i", "v">>
s_span == <<"s", "p", "a", "n">>
s_html == <<"h", "t", "m", "l">>
s_head == <<"h", "e", "a", "d">>
s_body == <<"b", "o", "d", "y">>
s_class == <<"c", "l", "a", "s", "s">>
s_id == <<"i", "d">>
s_data_val == <<"d", "a", "t", "a", "-", "v", "a", "l">>
s_red == <<"r", "e", "d">>
s_blue == <<"b", "l", "u", "e">>
s_red_blue == <<"r", "e", "d", " ", "b", "l", "u", "e">>
s_red_red == <<"r", "e", "d", " ", "r", "e", "d">>
s_1 == <<"1">>
s_2 == <<"2">>
s_12 == <<"1", "2">>
s_first_child == <<"f", "i", "r", "s", "t", "-", "c", "h", "i", "l", "d">>
s_nth_child == <<"n", "t", "h", "-", "c", "h", "i", "l", "d">>

\* char::is_whitespace, on the characters the model uses
IsWhitespace(c) == c \in {" ", "\t", "\n"}

\* str::contains
contains(v, val) ==
    \E i \in 1..(Len(v) + 1) :
        /\ i + Len(val) - 1 <= Len(v)
        /\ SubSeq(v, i, i + Len(val) - 1) = val

\* str::starts_with
starts_with(v, val) ==
    /\ Len(val) <= Len(v)
    /\ SubSeq(v, 1, Len(val)) = val

\* str::ends_with
ends_with(v, val) ==
    /\ Len(val) <= Len(v)
    /\ SubSeq(v, Len(v) - Len(val) + 1, Len(v)) = val

\* str::split_whitespace: the maximal runs of non-whitespace characters
RECURSIVE split_from(_, _, _, _)
split_from(v, i, cur, out) ==
    IF i > Len(v)
    THEN IF cur = <<>> THEN out ELSE Append(out, cur)
    ELSE IF IsWhitespace(v[i])
         THEN split_from(v, i + 1, <<>>, IF cur = <<>> THEN out ELSE Append(out, cur))
         ELSE split_from(v, i + 1, Append(cur, v[i]), out)

split_whitespace(v) == split_from(v, 1, <<>>, <<>>)

(***************************************************************************)
(* The selector AST (parser/mod.rs).                                       *)
(***************************************************************************)
AttributeSign == {"Empty", "Equal", "Contain", "BeginWith", "EndWith"}
CssCombinator == {"Descendant", "DirectChild", "AdjacentSibling"}

\* CssSelectorAttribute, one record shape for the five variants
AttrEmpty == [kind |-> "Empty", s |-> <<>>, sign |-> "Empty", arg |-> None]
ID(s) == [kind |-> "ID", s |-> s, sign |-> "Empty", arg |-> None]
Class(s) == [kind |-> "Class", s |-> s, sign |-> "Empty", arg |-> None]
Attribute(l, sign, r) == [kind |-> "Attribute", s |-> l, sign |-> sign, arg |-> r]
PseudoClass(s, a) == [kind |-> "PseudoClass", s |-> s, sign |-> "Empty", arg |-> a]

\* CssSelector, and CssSelector::default()
CssSelector(name, attributes, combinator) ==
    [name |-> name, attributes |-> attributes, combinator |-> combinator]
CssSelectorDefault == CssSelector(None, <<>>, "Descendant")

(***************************************************************************)
(* The document tree (markup5ever_rcdom).  A document is described by the  *)
(* parent and the shape of each node written in the input, in source       *)
(* order (parent 0: the node is at the top of the input).  parse_document  *)
(* builds the tree the HTML5 algorithm gives: node 0 is the Document, its  *)
(* only child is html (1) with children head (2) and body (3), and the     *)
(* nodes of the input (4, 5, ...) hang under body or under the Element     *)
(* they are written in.                                                    *)
(***************************************************************************)
Attr(name, value) == [name |-> name, value |-> value]

Element(name, attrs) == [type |-> "Element", name |-> name, attrs |-> attrs]
Text == [type |-> "Text", name |-> <<>>, attrs |-> <<>>]
Document == [type |-> "Document", name |-> <<>>, attrs |-> <<>>]

\* the node shapes the inputs are made of
Shapes ==
    { Text,
      Element(s_div, <<>>),
      Element(s_span, <<>>),
      Element(s_div, <<Attr(s_class, s_red)>>),
      Element(s_div, <<Attr(s_data_val, s_1)>>) }

\* the inputs of exactly n nodes: each node is written at the top or inside
\* an earlier node
DocsOf(n) ==
    { [parent |-> p, shape |-> sh] :
        p \in { q \in [1..n -> 0..n] : \A k \in 1..n : q[k] < k },
        sh \in [1..n -> Shapes] }

\* only an Element has children, and the tree builder merges adjacent texts,
\* so a tree never has two Text nodes next to each other
WellFormed(d) ==
    /\ \A n \in 1..Len(d.parent) :
           d.parent[n] = 0 \/ d.shape[d.parent[n]].type = "Element"
    /\ \A n \in 2..Len(d.parent) :
           ~ /\ d.shape[n].type = "Text"
             /\ \E m \in 1..(n - 1) :
                    /\ d.parent[m] = d.parent[n]
                    /\ d.shape[m].type = "Text"
                    /\ \A k \in (m + 1)..(n - 1) : d.parent[k] # d.parent[n]

Docs == { d \in UNION { DocsOf(n) : n \in 0..MaxNodes } : WellFormed(d) }

\* the nodes of the input written directly inside p, in source order
RECURSIVE children_of(_, _, _)
children_of(d, p, n) ==
    IF n > Len(d.parent)
    THEN <<>>
    ELSE IF d.parent[n] = p
         THEN <<n + 3>> \o children_of(d, p, n + 1)
         ELSE children_of(d, p, n + 1)

\* NodeData of a node: its variant and, for an Element, its name
NodeData(shape) == [type |-> shape.type, name |-> shape.name]

\* the html, head and body elements the tree builder always creates
Skeleton == <<Element(s_html, <<>>), Element(s_head, <<>>), Element(s_body, <<>>)>>

\* html5ever::parse_document(RcDom::default(), ..).one(content)
parse_document(d) ==
    LET ids == 0..(Len(d.parent) + 3)
        shape(n) == IF n = 0 THEN Document
                    ELSE IF n <= 3 THEN Skeleton[n] ELSE d.shape[n - 3]
    IN  [data |-> [n \in ids |-> NodeData(shape(n))],
         attrs |-> [n \in ids |-> shape(n).attrs],
         children |-> [n \in ids |->
                         IF n = 0 THEN <<1>>
                         ELSE IF n = 1 THEN <<2, 3>>
                         ELSE IF n = 2 THEN <<>>
                         ELSE IF n = 3 THEN children_of(d, 0, 1)
                         ELSE children_of(d, n - 3, 1)]]

\* before the first filter call no tree has been built
NoTree == [data |-> [n \in {} |-> n], attrs |-> [n \in {} |-> n], children |-> [n \in {} |-> n]]

(***************************************************************************)
(* The matcher (filter/mod.rs).  A pass returns the matched nodes (v), the *)
(* tree as the pass leaves it (RefCell::take on a children list leaves an  *)
(* empty list behind), the calls made (visits) and whether an unwrap of    *)
(* None was hit (panic).                                                   *)
(***************************************************************************)
Pass(v, t, vis, panic) ==
    [v |-> v, tree |-> t, visits |-> vis, panic |-> panic, position |-> 0]

Visit(node, index, position) == [node |-> node, index |-> index, position |-> position]

\* Vec::get: None when the index is out of bounds (indices count from 0)
get(vec, index) == IF index < Len(vec) THEN Some(vec[index + 1]) ELSE None

is_matching_selector_name(selector, element_name) ==
    IF IsSome(selector.name) THEN Unwrapped(selector.name) = element_name ELSE TRUE

\* the flat_map of is_matching_selector_attributes: one (name, value) entry per
\* attribute, one per whitespace-separated token for the class attribute
RECURSIVE attribute_entries(_, _)
attribute_entries(attrs, i) ==
    IF i > Len(attrs)
    THEN <<>>
    ELSE LET attr == attrs[i]
             v == IF attr.name = s_class THEN split_whitespace(attr.value) ELSE <<attr.value>>
         IN  [k \in 1..Len(v) |-> <<attr.name, v[k]>>] \o attribute_entries(attrs, i + 1)

\* the closure given to filter: does entry v satisfy predicate c
entry_matches(c, v) ==
    CASE c.kind = "ID" -> v[1] = s_id /\ v[2] = c.s
      [] c.kind = "Class" -> v[1] = s_class /\ v[2] = c.s
      [] c.kind = "Attribute" /\ c.sign = "Empty" /\ ~IsSome(c.arg) -> v[1] = c.s
      [] c.kind = "Attribute" /\ c.sign = "Equal" /\ IsSome(c.arg) ->
            v[1] = c.s /\ v[2] = Unwrapped(c.arg)
      [] c.kind = "Attribute" /\ c.sign = "Contain" /\ IsSome(c.arg) ->
            v[1] = c.s /\ contains(v[2], Unwrapped(c.arg))
      [] c.kind = "Attribute" /\ c.sign = "BeginWith" /\ IsSome(c.arg) ->
            v[1] = c.s /\ starts_with(v[2], Unwrapped(c.arg))
      [] c.kind = "Attribute" /\ c.sign = "EndWith" /\ IsSome(c.arg) ->
            v[1] = c.s /\ ends_with(v[2], Unwrapped(c.arg))
      [] OTHER -> FALSE

\* .filter(..).collect().len()
matching_entries(c, attrs) ==
    LET entries == attribute_entries(attrs, 1)
    IN  Cardinality({ k \in 1..Len(entries) : entry_matches(c, entries[k]) })

\* the fold with the pseudo-class predicates left out of the attribute test
RECURSIVE fold_attributes_plain_only(_, _, _, _)
fold_attributes_plain_only(preds, attrs, i, acc) ==
    IF i > Len(preds)
    THEN acc
    ELSE fold_attributes_plain_only(preds, attrs, i + 1,
             IF acc = FALSE
             THEN FALSE
             ELSE preds[i].kind = "PseudoClass" \/ matching_entries(preds[i], attrs) = 1)

\* the fold asking for at least one matching entry
RECURSIVE fold_attributes_at_least_one(_, _, _, _)
fold_attributes_at_least_one(preds, attrs, i, acc) ==
    IF i > Len(preds)
    THEN acc
    ELSE fold_attributes_at_least_one(preds, attrs, i + 1,
             IF acc = FALSE THEN FALSE ELSE matching_entries(preds[i], attrs) >= 1)

\* the fold keeping the outcome of the predicate it saw last
RECURSIVE fold_attributes_last_only(_, _, _, _)
fold_attributes_last_only(preds, attrs, i, acc) ==
    IF i > Len(preds)
    THEN acc
    ELSE fold_attributes_last_only(preds, attrs, i + 1, matching_entries(preds[i], attrs) = 1)

\* the fold over selector.attributes, from predicate i on
RECURSIVE fold_attributes(_, _, _, _)
fold_attributes(preds, attrs, i, acc) ==
    IF i > Len(preds)
    THEN acc
    ELSE fold_attributes(preds, attrs, i + 1,
                         IF acc = FALSE THEN FALSE ELSE matching_entries(preds[i], attrs) = 1)

is_matching_selector_attributes(selector, attrs) ==
    fold_attributes(selector.attributes, attrs, 1, TRUE)

\* the pseudo-class test passing any pseudo-class at position 0
is_matching_selector_pseudo_class_any(selector, attrs, position) ==
    \E k \in 1..Len(selector.attributes) :
        /\ selector.attributes[k].kind = "PseudoClass"
        /\ position = 0

is_matching_selector_pseudo_class(selector, attrs, position) ==
    \E k \in 1..Len(selector.attributes) :
        LET c == selector.attributes[k]
        IN  /\ c.kind = "PseudoClass"
            /\ ~IsSome(c.arg)
            /\ c.s = s_first_child
            /\ position = 0

\* is_matching_node without the name test
is_matching_node_any_name(selector, name, attrs, position) ==
    \/ is_matching_selector_attributes(selector, attrs)
    \/ is_matching_selector_pseudo_class(selector, attrs, position)

\* is_matching_node passing the selectors of the descendant combinator only
is_matching_node_descendant_only(selector, name, attrs, position) ==
    /\ selector.combinator = "Descendant"
    /\ is_matching_selector_name(selector, name)
    /\ \/ is_matching_selector_attributes(selector, attrs)
       \/ is_matching_selector_pseudo_class(selector, attrs, position)

\* let is_matching_node = ...
is_matching_node(selector, name, attrs, position) ==
    /\ is_matching_selector_name(selector, name)
    /\ \/ is_matching_selector_attributes(selector, attrs)
       \/ is_matching_selector_pseudo_class(selector, attrs, position)

\* the counter going up after every child, Element or not
next_position_every_child(t, n, position) == position + 1

\* the counter of the fold of explore_children_nodes after child n
next_position(t, n, position) ==
    IF t.data[n].type = "Element" THEN position + 1 ELSE position

\* node.children.take(): the list is moved out, an empty one is left
take_children(t, node) == [t EXCEPT !.children[node] = <<>>]

RECURSIVE filter_matching_nodes(_, _, _, _, _)
RECURSIVE fold_children(_, _, _, _, _)

\* the fold with each child's matches put before those of the earlier children
fold_children_reversed(kids, i, sels, index, acc) ==
    IF i > Len(kids) \/ acc.panic
    THEN acc
    ELSE fold_children(kids, i + 1, sels, index,
                       [filter_matching_nodes(acc.tree, kids[i], sels, index, acc.position)
                          EXCEPT !.v = @ \o acc.v,
                                 !.visits = acc.visits \o @,
                                 !.position = next_position(acc.tree, kids[i], acc.position)])

\* the fold ending at the first child that is not an Element
fold_children_until_other(kids, i, sels, index, acc) ==
    IF i > Len(kids) \/ acc.panic
    THEN acc
    ELSE fold_children(kids,
                       IF acc.tree.data[kids[i]].type = "Element" THEN i + 1 ELSE Len(kids) + 1,
                       sels, index,
                       [filter_matching_nodes(acc.tree, kids[i], sels, index, acc.position)
                          EXCEPT !.v = acc.v \o @,
                                 !.visits = acc.visits \o @,
                                 !.position = next_position(acc.tree, kids[i], acc.position)])

\* the fold of explore_children_nodes over the taken children, from child i on;
\* acc is (acc.0, acc.1) of the code (v, position) with the tree and the calls so far
fold_children(kids, i, sels, index, acc) ==
    IF i > Len(kids) \/ acc.panic
    THEN acc
    ELSE fold_children(kids, i + 1, sels, index,
                       [filter_matching_nodes(acc.tree, kids[i], sels, index, acc.position)
                          EXCEPT !.v = acc.v \o @,
                                 !.visits = acc.visits \o @,
                                 !.position = next_position(acc.tree, kids[i], acc.position)])

explore_children_nodes(t, node, sels, index) ==
    fold_children(t.children[node], 1, sels, index, Pass(<<>>, take_children(t, node), <<>>, FALSE))

\* the Element arm starting the chain over below an element that does not match
match_element_restarting(t, node, sels, index, matching) ==
    IF (IF matching THEN index + 1 ELSE index) = Len(sels) /\ matching
    THEN Pass(<<node>>, t, <<>>, FALSE)
    ELSE explore_children_nodes(t, node, sels, IF matching THEN index + 1 ELSE 0)

\* the Element arm taking the children of an element it returns
match_element_taking(t, node, sels, index, matching) ==
    IF (IF matching THEN index + 1 ELSE index) = Len(sels) /\ matching
    THEN Pass(<<node>>, take_children(t, node), <<>>, FALSE)
    ELSE explore_children_nodes(t, node, sels, IF matching THEN index + 1 ELSE index)

\* the Element arm going on below an element it has returned
match_element_descending(t, node, sels, index, matching) ==
    IF (IF matching THEN index + 1 ELSE index) = Len(sels) /\ matching
    THEN [explore_children_nodes(t, node, sels, index) EXCEPT !.v = <<node>> \o @]
    ELSE explore_children_nodes(t, node, sels, IF matching THEN index + 1 ELSE index)

\* the Element arm exploring the children of an element it has returned, with
\* the index after the last selector
match_element_exploring(t, node, sels, index, matching) ==
    IF (IF matching THEN index + 1 ELSE index) = Len(sels) /\ matching
    THEN [explore_children_nodes(t, node, sels, index + 1) EXCEPT !.v = <<node>> \o @]
    ELSE explore_children_nodes(t, node, sels, IF matching THEN index + 1 ELSE index)

\* the Element arm of filter_matching_nodes, for the selector at index
match_element(t, node, sels, index, matching) ==
    IF (IF matching THEN index + 1 ELSE index) = Len(sels) /\ matching
    THEN Pass(<<node>>, t, <<>>, FALSE)
    ELSE explore_children_nodes(t, node, sels, IF matching THEN index + 1 ELSE index)

\* the Element arm without the index == selectors.len() return
element_arm_unchecked(t, node, sels, index, position) ==
    IF ~IsSome(get(sels, index))
    THEN Pass(<<>>, t, <<>>, TRUE)
    ELSE match_element(t, node, sels, index,
                       is_matching_node(Unwrapped(get(sels, index)), t.data[node].name,
                                        t.attrs[node], position))

element_arm(t, node, sels, index, position) ==
    IF index = Len(sels)
    THEN Pass(<<>>, t, <<>>, FALSE)
    ELSE IF ~IsSome(get(sels, index))
         THEN Pass(<<>>, t, <<>>, TRUE)
         ELSE match_element(t, node, sels, index,
                            is_matching_node(Unwrapped(get(sels, index)), t.data[node].name,
                                             t.attrs[node], position))

filter_matching_nodes(t, node, sels, index, position) ==
    [(CASE t.data[node].type = "Document" -> explore_children_nodes(t, node, sels, index)
        [] t.data[node].type = "Element" -> element_arm(t, node, sels, index, position)
        [] OTHER -> Pass(<<>>, t, <<>>, FALSE))
       EXCEPT !.visits = <<Visit(node, index, position)>> \o @]

\* a filter call walking the tree the call before it left
filter_tree_reused(d, live) == IF DOMAIN live.data = {} THEN parse_document(d) ELSE live

\* the tree a filter call walks: built from the input by each call
filter_tree(d, live) == parse_document(d)

\* pub fn filter
filter(d, live, sels) == filter_matching_nodes(filter_tree(d, live), 0, sels, 0, 0)

(***************************************************************************)
(* The parser (parser/mod.rs).                                             *)
(***************************************************************************)
\* char::default(), the value of previous_char before the first character
NoChar == "NUL"

\* the first loop pushing no empty token
split_step_no_empty(st, c) ==
    IF c = " " /\ ~st.open
    THEN [parsed |-> IF st.acc = <<>> THEN st.parsed ELSE Append(st.parsed, st.acc),
          acc |-> <<>>, open |-> st.open]
    ELSE IF c = "["
         THEN [parsed |-> st.parsed, acc |-> Append(st.acc, c), open |-> TRUE]
         ELSE IF c = "]"
              THEN [parsed |-> st.parsed, acc |-> Append(st.acc, c), open |-> FALSE]
              ELSE [parsed |-> st.parsed, acc |-> Append(st.acc, c), open |-> st.open]

\* the first loop of parse: the expression is cut at the spaces outside
\* square brackets; st is (expressions_parsed, acc, open_square_bracket_detected)
split_step(st, c) ==
    IF c = " " /\ ~st.open
    THEN [parsed |-> Append(st.parsed, st.acc), acc |-> <<>>, open |-> st.open]
    ELSE IF c = "["
         THEN [parsed |-> st.parsed, acc |-> Append(st.acc, c), open |-> TRUE]
         ELSE IF c = "]"
              THEN [parsed |-> st.parsed, acc |-> Append(st.acc, c), open |-> FALSE]
              ELSE [parsed |-> st.parsed, acc |-> Append(st.acc, c), open |-> st.open]

RECURSIVE split_loop(_, _, _)
split_loop(e, i, st) ==
    IF i > Len(e) THEN st ELSE split_loop(e, i + 1, split_step(st, e[i]))

\* the last token pushed also when it is empty
push_rest_always(st) == Append(st.parsed, st.acc)

\* if !acc.is_empty() { expressions_parsed.push(acc) }
push_rest(st) == IF st.acc # <<>> THEN Append(st.parsed, st.acc) ELSE st.parsed

expressions_parsed(e) ==
    push_rest(split_loop(e, 1, [parsed |-> <<>>, acc |-> <<>>, open |-> FALSE]))

\* the state of the scan of one token: current_node_attribute, previous_char,
\* current_node, and whether an unwrap of None was hit
Scan(attr, previous, node, panic) ==
    [attr |-> attr, previous |-> previous, node |-> node, panic |-> panic]

\* if CssSelectorAttribute::Empty != current_node_attribute { attributes.push(..) }
push_attribute(node, attr) ==
    IF attr # AttrEmpty
    THEN [node EXCEPT !.attributes = Append(@, attr)]
    ELSE node

\* the marker test without the guard on the accumulator being an Attribute
is_marker_unguarded(st, c) == c \in {"#", ".", ":", "["}

\* the arms of the first match: a marker flushes the accumulator and opens a new one
is_marker(st, c) ==
    \/ c \in {"#", ".", ":"} /\ st.attr.kind # "Attribute"
    \/ c = "["

marker_arm(st, c) ==
    Scan(CASE c = "#" -> ID(<<>>)
           [] c = "." -> Class(<<>>)
           [] c = "[" -> Attribute(<<>>, "Empty", None)
           [] c = ":" -> PseudoClass(<<>>, None),
         c, push_attribute(st.node, st.attr), st.panic)

\* the PseudoClass arm taking the argument arm whatever attr is
pseudo_class_arm_unguarded(st, c) ==
    IF c \in {")", "("}
    THEN Scan(st.attr, c, st.node, st.panic)
    ELSE IF st.previous = "("
         THEN Scan(PseudoClass(st.attr.s, Some(<<c>>)), c, st.node, st.panic)
         ELSE IF IsSome(st.attr.arg)
              THEN Scan(PseudoClass(st.attr.s, Some(Append(Unwrapped(st.attr.arg), c))),
                        c, st.node, st.panic)
              ELSE Scan(st.attr, c, st.node, TRUE)

\* the PseudoClass arm taking the parentheses as characters like the others
pseudo_class_arm_keeps_parentheses(st, c) ==
    IF st.previous = "("
    THEN Scan(PseudoClass(st.attr.s, Some(<<c>>)), c, st.node, st.panic)
    ELSE IF IsSome(st.attr.arg)
         THEN Scan(PseudoClass(st.attr.s, Some(Append(Unwrapped(st.attr.arg), c))),
                   c, st.node, st.panic)
         ELSE Scan(PseudoClass(Append(st.attr.s, c), None), c, st.node, st.panic)

\* the PseudoClass arm of the second match
pseudo_class_arm(st, c) ==
    IF c \in {")", "("}
    THEN Scan(st.attr, c, st.node, st.panic)
    ELSE IF st.previous = "("
         THEN Scan(PseudoClass(st.attr.s, Some(<<c>>)), c, st.node, st.panic)
         ELSE IF st.attr.arg # None
              THEN IF IsSome(st.attr.arg)
                   THEN Scan(PseudoClass(st.attr.s, Some(Append(Unwrapped(st.attr.arg), c))),
                             c, st.node, st.panic)
                   ELSE Scan(st.attr, c, st.node, TRUE)
              ELSE Scan(PseudoClass(Append(st.attr.s, c), None), c, st.node, st.panic)

\* Option::unwrap_or(String::new())
unwrap_or_empty(o) == IF IsSome(o) THEN Unwrapped(o) ELSE <<>>

\* the Attribute arm of the second match
attribute_arm(st, c) ==
    LET left == st.attr.s
        sign == st.attr.sign
        right == st.attr.arg
    IN  IF c = "]"
        THEN Scan(st.attr, c, st.node, st.panic)
        ELSE IF c = "=" /\ st.previous = "^" /\ sign = "Empty"
        THEN Scan(Attribute(left, "BeginWith", None), c, st.node, st.panic)
        ELSE IF c = "=" /\ st.previous = "$" /\ sign = "Empty"
        THEN Scan(Attribute(left, "EndWith", None), c, st.node, st.panic)
        ELSE IF c = "=" /\ st.previous = "*" /\ sign = "Empty"
        THEN Scan(Attribute(left, "Contain", None), c, st.node, st.panic)
        ELSE IF c = "=" /\ sign = "Empty"
        THEN Scan(Attribute(left, "Equal", None), c, st.node, st.panic)
        ELSE IF c \in {"*", "$", "^"} /\ right = None
        THEN Scan(st.attr, c, st.node, st.panic)
        ELSE IF sign = "Empty"
        THEN Scan(Attribute(Append(left, c), sign, None), c, st.node, st.panic)
        ELSE IF c \in {"'", "\""}
        THEN Scan(st.attr, c, st.node, st.panic)
        ELSE Scan(Attribute(left, sign, Some(Append(unwrap_or_empty(right), c))),
                  c, st.node, st.panic)

\* the Empty arm of the second match: the character belongs to the element name
name_arm(st, c) ==
    Scan(st.attr, c,
         [st.node EXCEPT !.name = IF IsSome(@) THEN Some(Append(Unwrapped(@), c)) ELSE Some(<<c>>)],
         st.panic)

\* the body of the loop over the characters of a token
scan_char(st, c) ==
    IF is_marker(st, c)
    THEN marker_arm(st, c)
    ELSE CASE st.attr.kind = "Class" -> Scan(Class(Append(st.attr.s, c)), c, st.node, st.panic)
           [] st.attr.kind = "ID" -> Scan(ID(Append(st.attr.s, c)), c, st.node, st.panic)
           [] st.attr.kind = "PseudoClass" -> pseudo_class_arm(st, c)
           [] st.attr.kind = "Attribute" -> attribute_arm(st, c)
           [] st.attr.kind = "Empty" -> name_arm(st, c)

RECURSIVE scan_loop(_, _, _)
scan_loop(token, i, st) ==
    IF i > Len(token) \/ st.panic
    THEN st
    ELSE scan_loop(token, i + 1, scan_char(st, token[i]))

\* the selector a token gives: the scan, then the flush of the pending accumulator
parse_token(token, combinator) ==
    LET st == scan_loop(token, 1,
                        Scan(AttrEmpty, NoChar, [CssSelectorDefault EXCEPT !.combinator = combinator],
                             FALSE))
    IN  [node |-> push_attribute(st.node, st.attr), panic |-> st.panic]

\* the loop body leaving current_node_combinator as it is after a node
tokens_step_combinator_kept(acc, token) ==
    IF token = <<">">>
    THEN [acc EXCEPT !.combinator = "DirectChild", !.done = @ + 1]
    ELSE IF token = <<"+">>
         THEN [acc EXCEPT !.combinator = "AdjacentSibling", !.done = @ + 1]
         ELSE LET r == parse_token(token, acc.combinator)
              IN  IF r.panic
                  THEN [acc EXCEPT !.panic = TRUE]
                  ELSE [acc EXCEPT !.nodes = Append(@, r.node), !.done = @ + 1]

\* the loop over expressions_parsed; acc is (nodes, current_node_combinator)
\* with the number of tokens done and the panic flag
tokens_step(acc, token) ==
    IF token = <<">">>
    THEN [acc EXCEPT !.combinator = "DirectChild", !.done = @ + 1]
    ELSE IF token = <<"+">>
         THEN [acc EXCEPT !.combinator = "AdjacentSibling", !.done = @ + 1]
         ELSE LET r == parse_token(token, acc.combinator)
              IN  IF r.panic
                  THEN [acc EXCEPT !.panic = TRUE]
                  ELSE [acc EXCEPT !.nodes = Append(@, r.node),
                                   !.combinator = "Descendant",
                                   !.done = @ + 1]

RECURSIVE tokens_loop(_, _, _)
tokens_loop(tokens, i, acc) ==
    IF i > Len(tokens) \/ acc.panic
    THEN acc
    ELSE tokens_loop(tokens, i + 1, tokens_step(acc, tokens[i]))

\* pub fn parse: nodes is the chain returned; tokens, done and panic tell how
\* the call went
parse(e) ==
    LET tokens == expressions_parsed(e)
        acc == tokens_loop(tokens, 1,
                           [nodes |-> <<>>, combinator |-> "Descendant", done |-> 0,
                            panic |-> FALSE])
    IN  [nodes |-> acc.nodes, tokens |-> tokens, done |-> acc.done, panic |-> acc.panic]

(***************************************************************************)
(* The chains given to the matcher.                                        *)
(***************************************************************************)
sel_div == CssSelector(Some(s_div), <<>>, "Descendant")
sel_span == CssSelector(Some(s_span), <<>>, "Descendant")
sel_any == CssSelector(None, <<>>, "Descendant")
sel_div_first_child ==
    CssSelector(Some(s_div), <<PseudoClass(s_first_child, None)>>, "Descendant")
sel_div_red_first_child ==
    CssSelector(Some(s_div), <<Class(s_red), PseudoClass(s_first_child, None)>>, "Descendant")
sel_div_red == CssSelector(Some(s_div), <<Class(s_red)>>, "Descendant")
sel_data_val_1 ==
    CssSelector(None, <<Attribute(s_data_val, "Equal", Some(s_1))>>, "Descendant")
sel_span_nth_child ==
    CssSelector(Some(s_span), <<PseudoClass(s_nth_child, Some(s_2))>>, "Descendant")

SelectorPool ==
    { sel_div, sel_span, sel_any, sel_div_first_child, sel_div_red_first_child,
      sel_div_red, sel_data_val_1, sel_span_nth_child }

\* the sequences of at most n elements of S
SeqsUpTo(S, n) == UNION { [1..k -> S] : k \in 0..n }

Chains == SeqsUpTo(SelectorPool, MaxChain)

(***************************************************************************)
(* The program: main reads the input once, then for each selector          *)
(* expression calls filter on the input and the chain.                     *)
(***************************************************************************)
MatcherIdle ==
    /\ content = [parent |-> <<>>, shape |-> <<>>]
    /\ args = <<>>
    /\ tree = NoTree
    /\ selectors = <<>>
    /\ nodes = <<>>
    /\ visits = <<>>
    /\ panicked = FALSE
    /\ ran = FALSE
    /\ prev = None
    /\ output = <<>>

ParserIdle ==
    /\ expression = <<>>
    /\ parsed = None

TestIdle ==
    /\ attrs_in = <<>>
    /\ preds_in = <<>>
    /\ position_in = 0
    /\ verdict = None

\* the command lines: a selector expression given twice
ArgLists == { <<c, c>> : c \in Chains }

Init ==
    /\ content \in Docs
    /\ args \in ArgLists
    /\ tree = NoTree
    /\ selectors = <<>>
    /\ nodes = <<>>
    /\ visits = <<>>
    /\ panicked = FALSE
    /\ ran = FALSE
    /\ prev = None
    /\ output = <<>>
    /\ ParserIdle
    /\ TestIdle

\* one iteration of main's for_each: filter::filter(buffer.clone(), css_selector)
Filter ==
    /\ args # <<>>
    /\ ~panicked
    /\ \E r \in { filter(content, tree, Head(args)) } :
           /\ tree' = r.tree
           /\ nodes' = r.v
           /\ visits' = r.visits
           /\ panicked' = r.panic
    /\ selectors' = Head(args)
    /\ args' = Tail(args)
    /\ ran' = TRUE
    /\ prev' = IF ran /\ Head(args) = selectors THEN Some(nodes) ELSE None
    /\ output' = Append(output, [selectors |-> selectors', nodes |-> nodes'])
    /\ UNCHANGED <<content, parser_vars, test_vars>>

Next == Filter

Spec == Init /\ [][Next]_vars

(***************************************************************************)
(* parse on its own: the expressions are all the strings of at most MaxLen *)
(* characters of the alphabet, and the expressions of the parser's tests.  *)
(***************************************************************************)
Alphabet ==
    { "a", "b", " ", "#", ".", "[", "]", ":", "(", ")", "=", "^", "$", "*", "'", "\"", ">", "+" }

s_src == <<"s", "r", "c">>
s_chrome_url ==
    <<"c", "h", "r", "o", "m", "e", ":", "/", "/", "/", "f", "i", "l", "e", ".", "j", "s", "#",
      "t", "e", "s", "t">>
s_hello_world == <<"h", "e", "l", "l", "o", " ", "w", "o", "r", "l", "d">>

Samples ==
    { s_div \o <<".">> \o s_red \o <<":">> \o s_first_child,
      s_span \o <<":">> \o s_nth_child \o <<"(", "2", ")">>,
      s_div \o <<" ", ">", " ">> \o s_span,
      s_div \o <<" ", "+", " ">> \o s_span,
      <<"[">> \o s_src \o <<"=", "\"">> \o s_chrome_url \o <<"\"", "]">>,
      s_div \o <<"[">> \o s_src \o <<"=", "\"">> \o s_hello_world \o <<"\"", "]">>,
      <<"[", "a", "=", "\"", "*", "b", "\"", "]">>,
      <<"[", "a", "^", "=", "'", "b", "'", "]">>,
      <<":", "n", "o", "t", "(", ".", "a", ")">>,
      <<":", "a", "(", "b", "a", ")">>,
      <<"d", "i", "v", "[", "a", "=", "1", "]", ".", "r", "e", "d">>,
      <<"[", "a", "]", ":">> \o s_first_child,
      <<"[", "a", "=", "\"", "\"", "]">>,
      <<"[", "a", "[", "b", "]">>,
      s_div \o <<" ", " ">> \o s_span,
      <<"a", " ", ">", " ", "b", " ", "c">>,
      <<"a", " ", "+", " ", ">", " ", "b">>,
      <<"[">> \o s_data_val \o <<"=", "'", "1", "2", "'", "]">>,
      s_div \o <<"[">> \o s_data_val \o <<"$", "=", "\"">> \o s_red_blue \o <<"\"", "]">> }

Expressions == SeqsUpTo(Alphabet, MaxLen) \cup Samples

InitParse ==
    /\ expression \in Expressions
    /\ parsed = None
    /\ MatcherIdle
    /\ TestIdle

\* main: parser::parse(selector_chain.to_string())
Parse ==
    /\ parsed = None
    /\ parsed' = Some(parse(expression))
    /\ UNCHANGED <<expression, matcher_vars, test_vars>>

NextParse == Parse

SpecParse == InitParse /\ [][NextParse]_vars

(***************************************************************************)
(* The predicate tests on their own: is_matching_selector_attributes and   *)
(* is_matching_selector_pseudo_class take any attribute list, also one     *)
(* with the same name twice.                                               *)
(***************************************************************************)
AttrPool ==
    { Attr(s_data_val, s_1), Attr(s_data_val, s_2), Attr(s_id, s_1),
      Attr(s_class, s_red_red), Attr(s_class, s_red_blue) }

PredPool ==
    { ID(s_1), Class(s_red),
      Attribute(s_data_val, "Empty", None),
      Attribute(s_data_val, "Equal", Some(s_1)),
      Attribute(s_data_val, "Equal", Some(s_2)),
      Attribute(s_class, "Empty", None),
      Attribute(s_class, "Equal", Some(s_red_blue)),
      Attribute(s_class, "Contain", Some(s_red)),
      Attribute(s_class, "BeginWith", Some(s_red)),
      Attribute(s_class, "EndWith", Some(s_blue)),
      PseudoClass(s_first_child, None),
      PseudoClass(s_nth_child, Some(s_2)) }

InitPredicates ==
    /\ attrs_in \in SeqsUpTo(AttrPool, MaxAttrs)
    /\ preds_in \in SeqsUpTo(PredPool, MaxPreds)
    /\ position_in \in 0..1
    /\ verdict = None
    /\ MatcherIdle
    /\ ParserIdle

\* the two predicate tests of filter_matching_nodes on an element with these
\* attributes at this sibling position
Evaluate ==
    /\ verdict = None
    /\ verdict' = Some([attributes |->
                           is_matching_selector_attributes(CssSelector(None, preds_in, "Descendant"),
                                                           attrs_in),
                        pseudo_class |->
                           is_matching_selector_pseudo_class(CssSelector(None, preds_in, "Descendant"),
                                                             attrs_in, position_in)])
    /\ UNCHANGED <<attrs_in, preds_in, position_in, matcher_vars, parser_vars>>

NextPredicates == Evaluate

SpecPredicates == InitPredicates /\ [][NextPredicates]_vars

(***************************************************************************)
(* What the claims are stated over: the tree as parse_document built it,   *)
(* and the place of a node in it.                                          *)
(***************************************************************************)
Pristine == parse_document(content)

NodesOf(t) == DOMAIN t.data

ElementsOf(t) == { n \in NodesOf(t) : t.data[n].type = "Element" }

IsChildOf(t, n, p) == \E k \in 1..Len(t.children[p]) : t.children[p][k] = n

\* the number of Element children of n's parent that come before n
SiblingPosition(t, n) ==
    LET p == CHOOSE q \in NodesOf(t) : IsChildOf(t, n, q)
        k == CHOOSE j \in 1..Len(t.children[p]) : t.children[p][j] = n
    IN  Cardinality({ j \in 1..(k - 1) : t.data[t.children[p][j]].type = "Element" })

RECURSIVE IsAncestorOf(_, _, _)
IsAncestorOf(t, a, n) ==
    \E c \in NodesOf(t) : IsChildOf(t, c, a) /\ (c = n \/ IsAncestorOf(t, c, n))

\* the nodes of t in depth-first, left-to-right order, from node n
RECURSIVE PreOrder(_, _)
RECURSIVE PreOrderAll(_, _, _)
PreOrder(t, n) == <<n>> \o PreOrderAll(t, t.children[n], 1)
PreOrderAll(t, kids, i) ==
    IF i > Len(kids) THEN <<>> ELSE PreOrder(t, kids[i]) \o PreOrderAll(t, kids, i + 1)

IndexIn(q, x) == CHOOSE i \in 1..Len(q) : q[i] = x

InSeq(q, x) == \E i \in 1..Len(q) : q[i] = x

Last(q) == q[Len(q)]

\* the name test and the predicate test of filter_matching_nodes, lines 39-41
NameTest(selector, t, n) == is_matching_selector_name(selector, t.data[n].name)

PredicateTest(selector, t, n, position) ==
    \/ is_matching_selector_attributes(selector, t.attrs[n])
    \/ is_matching_selector_pseudo_class(selector, t.attrs[n], position)

(***************************************************************************)
(* C1 - sharpness of the result.                                           *)
(***************************************************************************)
\* C1: every element the matcher returns passes the name test and the predicate
\* test of the last selector of the chain, evaluated with the sibling position
\* the element has under its parent in the document.
C1_ResultsPassLastSelector ==
    ran /\ ~panicked =>
        \A t \in { Pristine } :
            \A k \in 1..Len(nodes) :
                /\ selectors # <<>>
                /\ nodes[k] \in ElementsOf(t)
                /\ NameTest(Last(selectors), t, nodes[k])
                /\ PredicateTest(Last(selectors), t, nodes[k], SiblingPosition(t, nodes[k]))

\* a two-selector chain returns an element that is not the first child of its parent
C1_Witness ==
    /\ ran
    /\ Len(selectors) = 2
    /\ \E k \in 1..Len(nodes) : SiblingPosition(Pristine, nodes[k]) > 0

(***************************************************************************)
(* C2 - document order.                                                    *)
(***************************************************************************)
\* C2: the result is in document pre-order: an element that comes earlier in the
\* result is visited earlier by a depth-first, left-to-right walk of the tree.
C2_ResultInPreOrder ==
    ran /\ ~panicked =>
        \A order \in { PreOrder(Pristine, 0) } :
            \A i \in 1..Len(nodes) : \A j \in 1..Len(nodes) :
                i < j => IndexIn(order, nodes[i]) < IndexIn(order, nodes[j])

\* a result of two elements in which the element written later in the input
\* comes first (it lies inside an earlier element)
C2_Witness ==
    /\ ran
    /\ Len(nodes) >= 2
    /\ \E i \in 1..Len(nodes) : \E j \in 1..Len(nodes) : i < j /\ nodes[i] > nodes[j]

(***************************************************************************)
(* C3 - only elements, no duplicates.                                      *)
(***************************************************************************)
\* C3: the result holds Element nodes only (never the Document, never a Text
\* node), holds no node twice, and a non-element child is never returned and
\* does not keep the siblings after it from being visited.
C3_OnlyElementsOnce ==
    ran /\ ~panicked =>
        \A t \in { Pristine } :
            /\ \A k \in 1..Len(nodes) : t.data[nodes[k]].type = "Element"
            /\ \A i \in 1..Len(nodes) : \A j \in 1..Len(nodes) : nodes[i] = nodes[j] => i = j
            /\ \A x \in 1..Len(visits) :
                   t.data[visits[x].node].type \notin {"Element", "Document"} =>
                       /\ ~InSeq(nodes, visits[x].node)
                       /\ \A p \in NodesOf(t) : \A a \in 1..Len(t.children[p]) :
                              t.children[p][a] = visits[x].node =>
                                  \A b \in (a + 1)..Len(t.children[p]) :
                                      \E y \in 1..Len(visits) :
                                          visits[y].node = t.children[p][b]

\* a Text node was visited and a sibling after it was returned
C3_Witness ==
    /\ ran
    /\ \E x \in 1..Len(visits) : \E k \in 1..Len(nodes) :
           /\ Pristine.data[visits[x].node].type = "Text"
           /\ \E p \in NodesOf(Pristine) :
                  /\ IsChildOf(Pristine, visits[x].node, p)
                  /\ IsChildOf(Pristine, nodes[k], p)
           /\ visits[x].node < nodes[k]

(***************************************************************************)
(* C4 - the matcher and the tree.                                          *)
(***************************************************************************)
\* C4: after a pass every node of the tree has the children list and the
\* attributes it had before the pass.
C4_TreeUnchanged ==
    ran /\ ~panicked => tree = Pristine

(***************************************************************************)
(* C5 - idempotence.                                                       *)
(***************************************************************************)
\* C5: a second filter call on the same input and the same chain returns the
\* same ordered list as the first.
C5_Idempotent ==
    IsSome(prev) /\ ~panicked => nodes = Unwrapped(prev)

\* the second of two calls on the same chain returned a non-empty list
C5_Witness ==
    /\ IsSome(prev)
    /\ nodes # <<>>

(***************************************************************************)
(* C8 - the matcher never fails.                                           *)
(***************************************************************************)
\* C8: no pass hits an unwrap of None; at every visit of an Element the chain
\* index is at most the length of the chain; and when the chain names a tag no
\* element of the tree has, the result is empty.
C8_MatcherNeverFails ==
    /\ ~panicked
    /\ ran =>
        \A t \in { Pristine } :
            /\ \A x \in 1..Len(visits) :
                   t.data[visits[x].node].type = "Element" => visits[x].index <= Len(selectors)
            /\ (\E k \in 1..Len(selectors) :
                    /\ IsSome(selectors[k].name)
                    /\ \A n \in ElementsOf(t) : t.data[n].name # Unwrapped(selectors[k].name))
                   => nodes = <<>>

\* the empty chain: an Element is visited with the index equal to the length
C8_Witness ==
    /\ ran
    /\ selectors = <<>>
    /\ \E x \in 1..Len(visits) :
           /\ Pristine.data[visits[x].node].type = "Element"
           /\ visits[x].index = Len(selectors)

(***************************************************************************)
(* C9 - a selector mixing a plain predicate and a pseudo-class.            *)
(***************************************************************************)
IsPlain(c) == c.kind \in {"ID", "Class", "Attribute"}

\* every plain predicate of the selector finds exactly one matching entry
PlainSatisfied(selector, attrs) ==
    \A k \in 1..Len(selector.attributes) :
        IsPlain(selector.attributes[k]) => matching_entries(selector.attributes[k], attrs) = 1

Mixed(selector) ==
    /\ \E k \in 1..Len(selector.attributes) : IsPlain(selector.attributes[k])
    /\ \E k \in 1..Len(selector.attributes) : selector.attributes[k].kind = "PseudoClass"

\* the elements a pass compared with the last selector of the chain
ComparedWithLast == { x \in 1..Len(visits) :
                        /\ Pristine.data[visits[x].node].type = "Element"
                        /\ visits[x].index + 1 = Len(selectors) }

\* C9 as the spec states it: an element compared with a mixed selector matches
\* when the name test passes and either all the plain predicates are satisfied
\* or a pseudo-class predicate is.
C9_EitherConditionAlone ==
    ran /\ ~panicked /\ selectors # <<>> /\ Mixed(Last(selectors)) =>
        \A x \in ComparedWithLast :
            ( /\ NameTest(Last(selectors), Pristine, visits[x].node)
              /\ \/ PlainSatisfied(Last(selectors), Pristine.attrs[visits[x].node])
                 \/ is_matching_selector_pseudo_class(Last(selectors),
                        Pristine.attrs[visits[x].node], visits[x].position) )
            <=> InSeq(nodes, visits[x].node)

\* C9 amended: an element compared with a mixed selector matches exactly when
\* the name test passes and a pseudo-class predicate is satisfied; the plain
\* predicates decide nothing.
C9_PseudoClassAlone ==
    ran /\ ~panicked /\ selectors # <<>> /\ Mixed(Last(selectors)) =>
        \A x \in ComparedWithLast :
            ( /\ NameTest(Last(selectors), Pristine, visits[x].node)
              /\ is_matching_selector_pseudo_class(Last(selectors),
                     Pristine.attrs[visits[x].node], visits[x].position) )
            <=> InSeq(nodes, visits[x].node)

\* div.red:first-child met a first child without class red, which was returned,
\* and a div with class red at a later position, which was not
C9_Witness ==
    /\ ran
    /\ selectors = <<sel_div_red_first_child>>
    /\ \E x \in ComparedWithLast : \E y \in ComparedWithLast :
           /\ Pristine.data[visits[x].node].name = s_div
           /\ Pristine.attrs[visits[x].node] = <<>>
           /\ visits[x].position = 0
           /\ InSeq(nodes, visits[x].node)
           /\ Pristine.attrs[visits[y].node] = <<Attr(s_class, s_red)>>
           /\ visits[y].position > 0
           /\ ~InSeq(nodes, visits[y].node)

(***************************************************************************)
(* C6 - parse is total.                                                    *)
(***************************************************************************)
\* C6: for every expression parse handles every token to the end and returns,
\* and no unwrap of an absent pseudo-class argument is hit.
C6_ParseTotal ==
    IsSome(parsed) =>
        /\ ~Unwrapped(parsed).panic
        /\ Unwrapped(parsed).done = Len(Unwrapped(parsed).tokens)

\* parse returned for an expression with an unbalanced parenthesis whose
\* pseudo-class argument arm was taken
C6_Witness ==
    /\ IsSome(parsed)
    /\ expression = <<":", "(", "a">>
    /\ Unwrapped(parsed).nodes = <<CssSelector(None, <<PseudoClass(<<>>, Some(<<"a">>))>>, "Descendant")>>

(***************************************************************************)
(* C7 - the length of the chain.                                           *)
(***************************************************************************)
\* C7 as the spec states it: every chain parse returns has at least one node,
\* and the empty expression gives one node with no name and no predicates.
C7_ChainNeverEmpty ==
    IsSome(parsed) =>
        /\ Len(Unwrapped(parsed).nodes) >= 1
        /\ expression = <<>> => Unwrapped(parsed).nodes = <<CssSelectorDefault>>

\* C7 amended: a chain has at least one node when the expression has a
\* character other than a space, > and +; the empty expression gives the empty
\* chain; the expression of one space gives one node with no name and no
\* predicates.
C7_ChainOfEmptyExpression ==
    IsSome(parsed) =>
        /\ (\E i \in 1..Len(expression) : expression[i] \notin {" ", ">", "+"})
               => Len(Unwrapped(parsed).nodes) >= 1
        /\ expression = <<>> => Unwrapped(parsed).nodes = <<>>
        /\ expression = <<" ">> => Unwrapped(parsed).nodes = <<CssSelectorDefault>>

\* parse returned for the empty expression
C7_Witness ==
    /\ IsSome(parsed)
    /\ expression = <<>>
    /\ Unwrapped(parsed).nodes = <<>>

(***************************************************************************)
(* C10 - an attribute carried twice.                                       *)
(***************************************************************************)
\* the values of the entries of attrs named name, in order
RECURSIVE ValuesOf(_, _, _)
ValuesOf(attrs, name, i) ==
    IF i > Len(attrs)
    THEN <<>>
    ELSE IF attrs[i].name = name
         THEN <<attrs[i].value>> \o ValuesOf(attrs, name, i + 1)
         ELSE ValuesOf(attrs, name, i + 1)

\* the element carries data-val twice, with two different values
CarriesDataValTwice ==
    \E vs \in { ValuesOf(attrs_in, s_data_val, 1) } : Len(vs) = 2 /\ vs[1] # vs[2]

s_dot_red == <<".">> \o s_red

MainExpressions ==
    { s_div, s_span,
      s_div \o <<" ">> \o s_dot_red,
      s_div \o <<" ", ">", " ">> \o s_dot_red,
      s_div \o <<" ", "+", " ">> \o s_dot_red }

\* let css_selector = parser::parse(selector_chain.to_string())
MainArgLists == { <<parse(a).nodes, parse(b).nodes>> : a \in MainExpressions, b \in MainExpressions }

InitMain ==
    /\ content \in Docs
    /\ args \in MainArgLists
    /\ tree = NoTree
    /\ selectors = <<>>
    /\ nodes = <<>>
    /\ visits = <<>>
    /\ panicked = FALSE
    /\ ran = FALSE
    /\ prev = None
    /\ output = <<>>
    /\ ParserIdle
    /\ TestIdle

SpecMain == InitMain /\ [][Next]_vars

ParentOf(t, n) == CHOOSE p \in NodesOf(t) : IsChildOf(t, n, p)

(***************************************************************************)
(* C11 - the combinators are not read by the matcher.                      *)
(***************************************************************************)
SameButCombinators(a, b) ==
    /\ Len(a) = Len(b)
    /\ \A k \in 1..Len(a) : a[k].name = b[k].name /\ a[k].attributes = b[k].attributes

\* C11: two chains that differ only in the combinator fields of their selectors
\* give the same ordered result on the same input.
C11_CombinatorsIgnored ==
    \A i \in 1..Len(output) : \A j \in 1..Len(output) :
        SameButCombinators(output[i].selectors, output[j].selectors)
            => output[i].nodes = output[j].nodes

\* "div .red" and then "div > .red" (or "div + .red") were evaluated, and the
\* element returned for the second is not a child of a div
C11_Witness ==
    /\ Len(output) = 2
    /\ output[1].selectors # output[2].selectors
    /\ SameButCombinators(output[1].selectors, output[2].selectors)
    /\ output[2].selectors[2].combinator # "Descendant"
    /\ \E k \in 1..Len(output[2].nodes) :
           Pristine.data[ParentOf(Pristine, output[2].nodes[k])].name # s_div

(***************************************************************************)
(* C12 - pseudo-classes other than first-child.                            *)
(***************************************************************************)
\* a predicate list with a pseudo-class that is not PseudoClass("first-child", None)
\* and without PseudoClass("first-child", None)
Unsupported(selector) ==
    /\ \E k \in 1..Len(selector.attributes) :
           /\ selector.attributes[k].kind = "PseudoClass"
           /\ selector.attributes[k] # PseudoClass(s_first_child, None)
    /\ \A k \in 1..Len(selector.attributes) :
           selector.attributes[k] # PseudoClass(s_first_child, None)

\* C12: a selector whose predicate list holds a pseudo-class other than the
\* zero-argument first-child, and no zero-argument first-child, matches no
\* element: the pass never moves past it in the chain, and the result is empty.
C12_UnsupportedNeverMatches ==
    ran /\ ~panicked =>
        \A k \in 1..Len(selectors) :
            Unsupported(selectors[k]) =>
                /\ nodes = <<>>
                /\ \A x \in 1..Len(visits) : visits[x].index < k

\* span:nth-child(2) was compared with a span that is the second element
\* child of its parent
C12_Witness ==
    /\ ran
    /\ selectors # <<>>
    /\ Last(selectors) = sel_span_nth_child
    /\ \E x \in ComparedWithLast :
           /\ Pristine.data[visits[x].node].name = s_span
           /\ visits[x].position = 1
           /\ SiblingPosition(Pristine, visits[x].node) = 1

(***************************************************************************)
(* C13 - combinator tokens.                                                *)
(***************************************************************************)
CombinatorTokens == { <<">">>, <<"+">> }

\* the positions, in order, of the tokens that are not combinator tokens
NodeTokens(tokens) ==
    SelectSeq([i \in 1..Len(tokens) |-> i], LAMBDA i : tokens[i] \notin CombinatorTokens)

\* the combinator written by the token just before position i
CombinatorBefore(tokens, i) ==
    IF i > 1 /\ tokens[i - 1] = <<">">>
    THEN "DirectChild"
    ELSE IF i > 1 /\ tokens[i - 1] = <<"+">>
         THEN "AdjacentSibling"
         ELSE "Descendant"

\* C13: a token that is exactly > or + gives no selector node; the chain has one
\* node per other token, in order, and a node's combinator is DirectChild or
\* AdjacentSibling when the token just before its own is > or +, and Descendant
\* otherwise (so the combinator reaches the next node only).
C13_CombinatorOfNextNodeOnly ==
    IsSome(parsed) /\ ~Unwrapped(parsed).panic =>
        \A r \in { Unwrapped(parsed) } :
            \A at \in { NodeTokens(r.tokens) } :
                /\ Len(r.nodes) = Len(at)
                /\ \A j \in 1..Len(at) :
                       r.nodes[j].combinator = CombinatorBefore(r.tokens, at[j])

\* "a > b c": three nodes, b a DirectChild and c a Descendant again
C13_Witness ==
    /\ expression = <<"a", " ", ">", " ", "b", " ", "c">>
    /\ IsSome(parsed)
    /\ Len(Unwrapped(parsed).tokens) = 4
    /\ Len(Unwrapped(parsed).nodes) = 3
    /\ Unwrapped(parsed).nodes[2].combinator = "DirectChild"
    /\ Unwrapped(parsed).nodes[3].combinator = "Descendant"

(***************************************************************************)
(* C14 - the characters between [ and ].                                   *)
(***************************************************************************)
\* position i of e lies after an opening [ that no ] has closed yet
InsideBrackets(e, i) ==
    \E j \in 1..(i - 1) :
        /\ e[j] = "["
        /\ \A k \in (j + 1)..(i - 1) : e[k] # "]"

Count(q, S) == Cardinality({ i \in 1..Len(q) : q[i] \in S })

CountInside(e, S) ==
    Cardinality({ i \in 1..Len(e) : e[i] \in S /\ InsideBrackets(e, i) })

CountOutside(e, S) ==
    Cardinality({ i \in 1..Len(e) : e[i] \in S /\ ~InsideBrackets(e, i) })

RECURSIVE Flatten(_)
Flatten(qs) == IF qs = <<>> THEN <<>> ELSE Head(qs) \o Flatten(Tail(qs))

\* the predicates of all the nodes of a chain, in order
PredicatesOf(chain) == Flatten([k \in 1..Len(chain) |-> chain[k].attributes])

\* the names and values of the Attribute predicates of a chain, put end to end
AttributeText(chain) ==
    LET ps == PredicatesOf(chain)
    IN  Flatten([k \in 1..Len(ps) |->
                    IF ps[k].kind = "Attribute"
                    THEN ps[k].s \o unwrap_or_empty(ps[k].arg)
                    ELSE <<>>])

\* C14: between an opening [ and its closing ] a space does not end the token
\* (the tokens are cut at the spaces outside brackets only), and #, . and :
\* open no Id, Class or PseudoClass predicate (every such predicate comes from
\* a marker outside brackets) but are kept, like the spaces there, in the
\* text of the Attribute predicates.
C14_BracketsOpaque ==
    IsSome(parsed) /\ ~Unwrapped(parsed).panic =>
        \A r \in { Unwrapped(parsed) } :
            /\ Len(r.tokens) =
                   CountOutside(expression, {" "})
                   + (IF expression # <<>>
                         /\ ~(Last(expression) = " " /\ ~InsideBrackets(expression, Len(expression)))
                      THEN 1 ELSE 0)
            /\ Cardinality({ k \in 1..Len(PredicatesOf(r.nodes)) :
                                PredicatesOf(r.nodes)[k].kind \in {"ID", "Class", "PseudoClass"} })
                   <= CountOutside(expression, {"#", ".", ":"})
            /\ \A x \in {" ", "#", ".", ":"} :
                   Count(AttributeText(r.nodes), {x}) >= CountInside(expression, {x})

\* the two expressions of the parser's test: one node each, with one Attribute
\* predicate whose value keeps the : . # and the space
C14_Witness ==
    /\ IsSome(parsed)
    /\ \/ /\ expression = <<"[">> \o s_src \o <<"=", "\"">> \o s_chrome_url \o <<"\"", "]">>
          /\ Unwrapped(parsed).nodes =
                 <<CssSelector(None, <<Attribute(s_src, "Equal", Some(s_chrome_url))>>, "Descendant")>>
       \/ /\ expression = s_div \o <<"[">> \o s_src \o <<"=", "\"">> \o s_hello_world \o <<"\"", "]">>
          /\ Unwrapped(parsed).nodes =
                 <<CssSelector(Some(s_div), <<Attribute(s_src, "Equal", Some(s_hello_world))>>,
                               "Descendant")>>

(***************************************************************************)
(* C15 - the operator, the name and the value of an attribute selector.    *)
(***************************************************************************)
Without(q, S) == SelectSeq(q, LAMBDA c : c \notin S)

\* the first position of a character of S in q, 0 when there is none
FirstIndex(q, S) ==
    IF \E i \in 1..Len(q) : q[i] \in S
    THEN CHOOSE i \in 1..Len(q) : q[i] \in S /\ \A j \in 1..(i - 1) : q[j] \notin S
    ELSE 0

\* an expression of one token: a plain element name or nothing, then one
\* attribute selector, closed by a last ] or left open
OneAttributeSelector(e) ==
    /\ FirstIndex(e, {"["}) > 0
    /\ \A i \in 1..Len(e) :
           /\ i < FirstIndex(e, {"["}) => e[i] \notin {"#", ".", ":", "]", " ", ">", "+"}
           /\ i > FirstIndex(e, {"["}) => e[i] # "["
           /\ i < Len(e) => e[i] # "]"

\* what stands between the [ and the closing ]
BodyOf(e) ==
    SubSeq(e, FirstIndex(e, {"["}) + 1, IF Last(e) = "]" THEN Len(e) - 1 ELSE Len(e))

\* the operator the first = of the body writes, with the character before it
SignOf(body) ==
    LET eq == FirstIndex(body, {"="})
    IN  IF eq = 0 THEN "Empty"
        ELSE IF eq > 1 /\ body[eq - 1] = "^" THEN "BeginWith"
        ELSE IF eq > 1 /\ body[eq - 1] = "$" THEN "EndWith"
        ELSE IF eq > 1 /\ body[eq - 1] = "*" THEN "Contain"
        ELSE "Equal"

\* the characters before the operator, and the characters after it
BeforeOperator(body) ==
    LET eq == FirstIndex(body, {"="})
    IN  IF eq = 0 THEN body
        ELSE SubSeq(body, 1, IF SignOf(body) = "Equal" THEN eq - 1 ELSE eq - 2)

AfterOperator(body) ==
    LET eq == FirstIndex(body, {"="})
    IN  IF eq = 0 THEN <<>> ELSE SubSeq(body, eq + 1, Len(body))

\* the one Attribute predicate parse returned for the expression
TheAttribute == Unwrapped(parsed).nodes[1].attributes[1]

\* C15: inside an attribute selector the operator is the one the first = writes
\* (^= BeginWith, $= EndWith, *= Contain, another = Equal, none Empty and no
\* value), the characters before the operator are the name and the characters
\* after it, without the quotes, are the value.
C15_OperatorNameValue ==
    IsSome(parsed) /\ OneAttributeSelector(expression) =>
        \A body \in { BodyOf(expression) } :
            /\ Len(Unwrapped(parsed).nodes) = 1
            /\ Len(Unwrapped(parsed).nodes[1].attributes) = 1
            /\ TheAttribute.kind = "Attribute"
            /\ TheAttribute.sign = SignOf(body)
            /\ TheAttribute.s = BeforeOperator(body)
            /\ SignOf(body) = "Empty" => TheAttribute.arg = None
            /\ unwrap_or_empty(TheAttribute.arg) = Without(AfterOperator(body), {"'", "\""})

(***************************************************************************)
(* C16 - the name and the argument of a pseudo-class.                      *)
(***************************************************************************)
\* an expression of one token :name or :name(arg); the name ends at the first
\* parenthesis and holds no marker, the argument is what the parentheses enclose
OnePseudoClass(e) ==
    /\ e # <<>>
    /\ Head(e) = ":"
    /\ \A i \in 2..Len(e) : e[i] # " "
    /\ LET open == FirstIndex(e, {"("})
       IN  /\ \A i \in 2..(IF open = 0 THEN Len(e) ELSE open - 1) :
                  e[i] \notin {"#", ".", ":", "[", ")"}
           /\ open > 0 =>
                  /\ Last(e) = ")"
                  /\ \A i \in (open + 1)..(Len(e) - 1) : e[i] \notin {"(", ")"}

NameOf(e) ==
    SubSeq(e, 2, IF FirstIndex(e, {"("}) = 0 THEN Len(e) ELSE FirstIndex(e, {"("}) - 1)

ArgumentOf(e) == SubSeq(e, FirstIndex(e, {"("}) + 1, Len(e) - 1)

C17_FirstChildIsPositionZero ==
    ran /\ ~panicked =>
        \A t \in { Pristine } :
            /\ \A x \in 1..Len(visits) :
                   t.data[visits[x].node].type = "Element" =>
                       visits[x].position = SiblingPosition(t, visits[x].node)
            /\ selectors # <<>> =>
                   (Last(selectors).attributes = <<PseudoClass(s_first_child, None)>> =>
                        \A x \in ComparedWithLast :
                            InSeq(nodes, visits[x].node) <=>
                                /\ NameTest(Last(selectors), t, visits[x].node)
                                /\ SiblingPosition(t, visits[x].node) = 0)

\* under one parent a Text, then a div that is returned for div:first-child,
\* then a div that was compared with it and is not returned
C17_Witness ==
    /\ ran
    /\ selectors = <<sel_any, sel_div_first_child>>
    /\ \E p \in NodesOf(Pristine) :
           /\ Len(Pristine.children[p]) = 3
           /\ Pristine.data[Pristine.children[p][1]].type = "Text"
           /\ Pristine.data[Pristine.children[p][2]].name = s_div
           /\ Pristine.data[Pristine.children[p][3]].name = s_div
           /\ InSeq(nodes, Pristine.children[p][2])
           /\ ~InSeq(nodes, Pristine.children[p][3])
           /\ \E x \in ComparedWithLast : visits[x].node = Pristine.children[p][3]

(***************************************************************************)
(* C18 - a terminal match ends the descent.                                *)
(***************************************************************************)
\* C18: no descendant of an element of the result is visited by the pass, so
\* no element of the result is a proper ancestor of another one.
C18_NoDescentBelowResult ==
    ran /\ ~panicked =>
        \A t \in { Pristine } :
            \A k \in 1..Len(nodes) :
                /\ \A x \in 1..Len(visits) : ~IsAncestorOf(t, nodes[k], visits[x].node)
                /\ \A j \in 1..Len(nodes) : ~IsAncestorOf(t, nodes[k], nodes[j])

\* an element returned for the chain wraps an element that passes the last
\* selector of the chain too
C18_Witness ==
    /\ ran
    /\ selectors # <<>>
    /\ \E k \in 1..Len(nodes) : \E n \in ElementsOf(Pristine) :
           /\ IsAncestorOf(Pristine, nodes[k], n)
           /\ NameTest(Last(selectors), Pristine, n)
           /\ PredicateTest(Last(selectors), Pristine, n, SiblingPosition(Pristine, n))
           /\ Last(selectors).name # None

(***************************************************************************)
(* C19 - the order of plain predicates, attributes and class tokens.       *)
(***************************************************************************)
\* the rearrangements of the positions 1..n
Rearrangements(n) == { f \in [1..n -> 1..n] : \A i \in 1..n : \E j \in 1..n : f[j] = i }

Rearranged(q, f) == [i \in 1..Len(q) |-> q[f[i]]]

Reversed(q) == [i \in 1..Len(q) |-> q[Len(q) + 1 - i]]

\* words put end to end with one space between them
RECURSIVE JoinWords(_)
JoinWords(ws) ==
    IF ws = <<>> THEN <<>>
    ELSE IF Len(ws) = 1 THEN ws[1]
    ELSE ws[1] \o <<" ">> \o JoinWords(Tail(ws))

\* the attribute list with the tokens of every class attribute in reverse order
ClassTokensReversed(attrs) ==
    [i \in 1..Len(attrs) |->
        IF attrs[i].name = s_class
        THEN Attr(s_class, JoinWords(Reversed(split_whitespace(attrs[i].value))))
        ELSE attrs[i]]

AttributesTest(preds, attrs) ==
    is_matching_selector_attributes(CssSelector(None, preds, "Descendant"), attrs)

\* C19: for a predicate list of plain predicates only, the predicate test
\* passes iff every predicate of the list is satisfied (finds the one entry it
\* asks for), and its outcome is the same for every rearrangement of the
\* predicate list, every rearrangement of the element's attributes, and the
\* class tokens in reverse order.
C19_OrderIndependent ==
    (IsSome(verdict) /\ \A k \in 1..Len(preds_in) : IsPlain(preds_in[k])) =>
        \A outcome \in { Unwrapped(verdict).attributes } :
            /\ outcome <=> \A k \in 1..Len(preds_in) : matching_entries(preds_in[k], attrs_in) = 1
            /\ \A f \in Rearrangements(Len(preds_in)) :
                   AttributesTest(Rearranged(preds_in, f), attrs_in) = outcome
            /\ \A g \in Rearrangements(Len(attrs_in)) :
                   AttributesTest(preds_in, Rearranged(attrs_in, g)) = outcome
            /\ AttributesTest(preds_in, ClassTokensReversed(attrs_in)) = outcome

\* a class predicate written before an attribute predicate passes on an element
\* that carries the attribute before the class, the token asked for being the
\* first of two
C19_Witness ==
    /\ IsSome(verdict)
    /\ preds_in = <<Class(s_red), Attribute(s_data_val, "Equal", Some(s_1))>>
    /\ attrs_in = <<Attr(s_data_val, s_1), Attr(s_class, s_red_blue)>>
    /\ Unwrapped(verdict).attributes

(***************************************************************************)
(* C20 - several expressions in one invocation.                            *)
(***************************************************************************)
\* C20: every block printed holds what filter returns for that block's chain
\* on a tree newly built from the input, whatever was evaluated before it; the
\* last block is that of the call just made, and the blocks are as many as the
\* calls made.
C20_EachExpressionOnItsOwn ==
    /\ \A k \in 1..Len(output) :
           output[k].nodes = filter(content, NoTree, output[k].selectors).v
    /\ ran => output # <<>> /\ Last(output) = [selectors |-> selectors, nodes |-> nodes]
    /\ Len(output) + Len(args) = 2

\* "div" and then "span" were evaluated: all the divs, then all the spans, the
\* spans being other elements than those "div span" returns
C20_Witness ==
    /\ Len(output) = 2
    /\ output[1].selectors = <<sel_div>>
    /\ output[2].selectors = <<sel_span>>
    /\ output[1].nodes # <<>>
    /\ output[2].nodes # <<>>
    /\ output[2].nodes # filter(content, NoTree, <<sel_div, sel_span>>).v

(***************************************************************************)
(* C21, C22 - the entries a plain predicate is counted over.               *)
(***************************************************************************)
\* the places where a whitespace-separated token of v begins
TokenStarts(v) ==
    { j \in 1..Len(v) : ~IsWhitespace(v[j]) /\ (j = 1 \/ IsWhitespace(v[j - 1])) }

\* the token of v that begins at j
TokenFrom(v, j) ==
    SubSeq(v, j, CHOOSE k \in j..Len(v) :
                     /\ \A m \in j..k : ~IsWhitespace(v[m])
                     /\ (k = Len(v) \/ IsWhitespace(v[k + 1])))

\* the entries of an attribute list, as places <<attribute, token start>>: one
\* per token for a class attribute when split, one (start 0) for the raw value
\* otherwise
EntryPlaces(attrs, split) ==
    UNION { { <<i, j>> : j \in IF split /\ attrs[i].name = s_class
                                THEN TokenStarts(attrs[i].value)
                                ELSE {0} } : i \in 1..Len(attrs) }

EntryAt(attrs, place) ==
    <<attrs[place[1]].name,
      IF place[2] = 0
      THEN attrs[place[1]].value
      ELSE TokenFrom(attrs[place[1]].value, place[2])>>

MatchingPlaces(c, attrs, split) ==
    { place \in EntryPlaces(attrs, split) : entry_matches(c, EntryAt(attrs, place)) }

\* C21: a plain predicate on its own passes iff exactly one entry of the
\* element matches it, the class attribute giving one entry per token: no
\* matching entry fails, and two or more fail.
C21_ExactlyOneEntry ==
    (IsSome(verdict) /\ Len(preds_in) = 1 /\ IsPlain(Head(preds_in))) =>
        (Unwrapped(verdict).attributes
            <=> Cardinality(MatchingPlaces(Head(preds_in), attrs_in, TRUE)) = 1)

\* a Class predicate fails on a class attribute that lists its token twice, or
\* a Presence predicate fails on a name carried twice
C21_Witness ==
    /\ IsSome(verdict)
    /\ ~Unwrapped(verdict).attributes
    /\ \/ preds_in = <<Class(s_red)>> /\ attrs_in = <<Attr(s_class, s_red_red)>>
       \/ /\ preds_in = <<Attribute(s_data_val, "Empty", None)>>
          /\ attrs_in = <<Attr(s_data_val, s_1), Attr(s_data_val, s_2)>>

\* C22: a Class predicate is counted over the tokens of the class attribute;
\* an Id or Attribute predicate is counted over the raw values, one entry per
\* attribute, also for the attribute class (so [class] and [class="red blue"]
\* pass on class="red blue").
C22_OnlyClassSeesTokens ==
    (IsSome(verdict) /\ Len(preds_in) = 1 /\ IsPlain(Head(preds_in))) =>
        (Unwrapped(verdict).attributes
            <=> Cardinality(MatchingPlaces(Head(preds_in), attrs_in,
                                           Head(preds_in).kind = "Class")) = 1)

(***************************************************************************)
(* C23 - a [ met while the accumulator is an Attribute.                    *)
(***************************************************************************)
AttributesIn(node) == { k \in 1..Len(node.attributes) : node.attributes[k].kind = "Attribute" }

\* C23: from the first [ of a token to its end the accumulator is an
\* Attribute, and a further [ neither pushes it nor opens another one: no
\* node has more than one Attribute predicate.
C23_NoNestedAttribute ==
    IsSome(parsed) =>
        \A k \in 1..Len(Unwrapped(parsed).nodes) :
            Cardinality(AttributesIn(Unwrapped(parsed).nodes[k])) <= 1

(***************************************************************************)
(* C24 - what follows the ] in a token.                                    *)
(***************************************************************************)
\* one token with one attribute selector that is closed by a ] and followed
\* by more characters
ClosedAndFollowed(e) ==
    /\ Count(e, {"["}) = 1
    /\ Count(e, {"]"}) = 1
    /\ Count(e, {" "}) = 0
    /\ FirstIndex(e, {"["}) < FirstIndex(e, {"]"})
    /\ FirstIndex(e, {"]"}) < Len(e)

\* C24: the ] is in no attribute name or value, and the Attribute predicate of
\* a token is the one its part up to the ] gives: what follows the ] is not
\* added to it (div[a=1].red gives Attribute(a, Equal, 1) and then Class(red)).
C24_ClosedByBracket ==
    IsSome(parsed) =>
        /\ Count(AttributeText(Unwrapped(parsed).nodes), {"]"}) = 0
        /\ ClosedAndFollowed(expression) =>
               \A upto \in { parse(SubSeq(expression, 1, FirstIndex(expression, {"]"}))).nodes } :
                   \E k \in AttributesIn(Unwrapped(parsed).nodes[1]) :
                       Unwrapped(parsed).nodes[1].attributes[k] = Last(upto[1].attributes)
        /\ expression = <<"d", "i", "v", "[", "a", "=", "1", "]", ".", "r", "e", "d">> =>
               Unwrapped(parsed).nodes[1].attributes =
                   <<Attribute(<<"a">>, "Equal", Some(s_1)), Class(s_red)>>

(***************************************************************************)
(* C25 - the value of an Attribute predicate and its operator.             *)
(***************************************************************************)
\* C25: every Attribute predicate of a chain parse returns has no value iff
\* its operator is Empty, and no predicate of a chain is the Empty sentinel.
C25_ValueIffOperator ==
    IsSome(parsed) =>
        \A ps \in { PredicatesOf(Unwrapped(parsed).nodes) } :
            \A k \in 1..Len(ps) :
                /\ ps[k] # AttrEmpty
                /\ ps[k].kind = "Attribute" => (ps[k].arg = None <=> ps[k].sign = "Empty")

(***************************************************************************)
(* C26 - the index == selectors.len() return.                              *)
(***************************************************************************)
ElementVisits == { x \in 1..Len(visits) : Pristine.data[visits[x].node].type = "Element" }

\* C26: during a pass no Element is visited with an index equal to the length
\* of the chain.
C26_BranchUnreachable ==
    ran /\ ~panicked => \A x \in ElementVisits : visits[x].index < Len(selectors)

\* C26 as the matcher has it: for a chain that is not empty no Element is
\* visited with an index equal to its length; for the empty chain (the chain
\* of the empty expression) the pass visits the Document and then the root
\* element with index 0, which is the length, returns nothing there and goes
\* no further.
C26_ReachedByEmptyChainOnly ==
    ran /\ ~panicked =>
        /\ selectors # <<>> => \A x \in ElementVisits : visits[x].index < Len(selectors)
        /\ selectors = <<>> =>
               /\ visits = <<Visit(0, 0, 0), Visit(1, 0, 0)>>
               /\ nodes = <<>>

\* a chain of two selectors was completed at an element that has an element
\* child, which the pass would have reached with index 2
C26_Witness ==
    /\ ran
    /\ Len(selectors) = 2
    /\ \E k \in 1..Len(nodes) : \E n \in ElementsOf(Pristine) : IsChildOf(Pristine, n, nodes[k])

(***************************************************************************)
(* C27 - one pass visits a node at most once.                              *)
(***************************************************************************)
Visited == { visits[x].node : x \in 1..Len(visits) }

VisitedOnce ==
    /\ \A x \in 1..Len(visits) : \A y \in 1..Len(visits) :
           visits[x].node = visits[y].node => x = y
    /\ Visited \subseteq NodesOf(Pristine)
    /\ Len(visits) <= Cardinality(NodesOf(Pristine))

\* C27: a pass makes at most one filter_matching_nodes call per node of the
\* tree, and a node it does not visit lies strictly below an element of the
\* result.
C27_UnvisitedBelowResultOnly ==
    ran /\ ~panicked =>
        /\ VisitedOnce
        /\ \A n \in NodesOf(Pristine) \ Visited :
               \E k \in 1..Len(nodes) : IsAncestorOf(Pristine, nodes[k], n)

\* C27 as the matcher has it: at most one call per node, and a node that is
\* not visited lies strictly below an element of the result or, when the chain
\* is empty, strictly below the root element.
C27_UnvisitedBelowResultOrRoot ==
    ran /\ ~panicked =>
        /\ VisitedOnce
        /\ \A n \in NodesOf(Pristine) \ Visited :
               \/ \E k \in 1..Len(nodes) : IsAncestorOf(Pristine, nodes[k], n)
               \/ selectors = <<>> /\ IsAncestorOf(Pristine, 1, n)

\* a pass with a chain that left a node unvisited below a returned element and
\* visited a Text node
C27_Witness ==
    /\ ran
    /\ selectors # <<>>
    /\ NodesOf(Pristine) \ Visited # {}
    /\ \E n \in Visited : Pristine.data[n].type = "Text"

(***************************************************************************)
(* C28 - which elements a chain returns.                                   *)
(***************************************************************************)
\* the elements from the root element down to e, e included
RECURSIVE PathTo(_, _)
PathTo(t, e) ==
    IF t.data[ParentOf(t, e)].type = "Element"
    THEN Append(PathTo(t, ParentOf(t, e)), e)
    ELSE <<e>>

Satisfies(t, n, selector) ==
    /\ NameTest(selector, t, n)
    /\ PredicateTest(selector, t, n, SiblingPosition(t, n))

\* the selectors of the chain can be given, in order, distinct elements of the
\* path that satisfy them, the last selector being given the last element
Embeds(t, path, chain) ==
    \E f \in [1..Len(chain) -> 1..Len(path)] :
        /\ \A i \in 1..Len(chain) : \A j \in 1..Len(chain) : i < j => f[i] < f[j]
        /\ f[Len(chain)] = Len(path)
        /\ \A i \in 1..Len(chain) : Satisfies(t, path[f[i]], chain[i])

SpanAncestors(t, e) ==
    { a \in ElementsOf(t) : IsAncestorOf(t, a, e) /\ t.data[a].name = s_span }

\* C28: for a chain that is not empty, an element is in the result iff the
\* chain embeds in the path from the root element to it, ending at it, and none
\* of its proper ancestors is in the result; for a chain of n selectors "span"
\* the result is the spans with exactly n - 1 span proper ancestors.
C28_GreedyCharacterisation ==
    (ran /\ ~panicked /\ selectors # <<>>) =>
        \A t \in { Pristine } :
            \A e \in ElementsOf(t) :
                /\ InSeq(nodes, e) <=>
                       /\ Embeds(t, PathTo(t, e), selectors)
                       /\ \A a \in ElementsOf(t) : IsAncestorOf(t, a, e) => ~InSeq(nodes, a)
                /\ (\A k \in 1..Len(selectors) : selectors[k] = sel_span) =>
                       (InSeq(nodes, e) <=>
                            /\ t.data[e].name = s_span
                            /\ Cardinality(SpanAncestors(t, e)) = Len(selectors) - 1)

\* "span span" on three nested spans returns the middle one: the innermost
\* span embeds the chain too, but lies below a returned element
C28_Witness ==
    /\ ran
    /\ selectors = <<sel_span, sel_span>>
    /\ \E e \in ElementsOf(Pristine) :
           /\ ~InSeq(nodes, e)
           /\ Embeds(Pristine, PathTo(Pristine, e), selectors)
           /\ InSeq(nodes, ParentOf(Pristine, e))

(***************************************************************************)
(* C29 - what a returned element still holds.                              *)
(***************************************************************************)
\* C29: in the tree the pass leaves, every element of the result and every
\* node below it has the children list and the attributes it was built with.
C29_ResultSubtreesIntact ==
    ran /\ ~panicked =>
        \A t \in { Pristine } :
            \A k \in 1..Len(nodes) :
                \A n \in NodesOf(t) :
                    (n = nodes[k] \/ IsAncestorOf(t, nodes[k], n)) =>
                        /\ tree.children[n] = t.children[n]
                        /\ tree.attrs[n] = t.attrs[n]
                        /\ tree.data[n] = t.data[n]

\* a returned element with an attribute and a child, below a parent whose own
\* children list the pass has emptied
C29_Witness ==
    /\ ran
    /\ \E k \in 1..Len(nodes) :
           /\ tree.children[nodes[k]] # <<>>
           /\ tree.attrs[nodes[k]] # <<>>
           /\ tree.children[ParentOf(Pristine, nodes[k])] = <<>>

(***************************************************************************)
(* C30 - empty tokens.                                                     *)
(***************************************************************************)
\* the places of the spaces of e outside brackets, and the k-th of them
OutsideSpaces(e) == { i \in 1..Len(e) : e[i] = " " /\ ~InsideBrackets(e, i) }

KthOutsideSpace(e, k) ==
    CHOOSE p \in OutsideSpaces(e) : Cardinality({ q \in OutsideSpaces(e) : q < p }) = k - 1

\* what stands before the k-th outside space, back to the one before it
PieceBefore(e, k) ==
    SubSeq(e, IF k = 1 THEN 1 ELSE KthOutsideSpace(e, k - 1) + 1, KthOutsideSpace(e, k) - 1)

\* what stands after the last outside space
Rest(e) ==
    LET m == Cardinality(OutsideSpaces(e))
    IN  SubSeq(e, IF m = 0 THEN 1 ELSE KthOutsideSpace(e, m) + 1, Len(e))

\* C30: every space outside brackets ends a token, empty or not, and what
\* follows the last of them is a token only when it is not empty; an empty
\* token gives a node with no name and no predicates, with the combinator
\* pending, which every element passes.
C30_EmptyTokens ==
    IsSome(parsed) /\ ~Unwrapped(parsed).panic =>
        \A r \in { Unwrapped(parsed) } :
            \A m \in { Cardinality(OutsideSpaces(expression)) } :
                /\ Len(r.tokens) = m + (IF Rest(expression) # <<>> THEN 1 ELSE 0)
                /\ \A k \in 1..m : r.tokens[k] = PieceBefore(expression, k)
                /\ Rest(expression) # <<>> => r.tokens[m + 1] = Rest(expression)
                /\ \A at \in { NodeTokens(r.tokens) } :
                       /\ Len(r.nodes) = Len(at)
                       /\ \A j \in 1..Len(at) :
                              r.tokens[at[j]] = <<>> =>
                                  /\ r.nodes[j] =
                                         CssSelector(None, <<>>, CombinatorBefore(r.tokens, at[j]))
                                  /\ \A name \in {s_div, s_html} :
                                         \A attrs \in {<<>>, <<Attr(s_class, s_red)>>} :
                                             \A position \in 0..1 :
                                                 is_matching_node(r.nodes[j], name, attrs, position)

\* "div  span" with two spaces: three nodes, the middle one without name and
\* predicates
C30_Witness ==
    /\ expression = s_div \o <<" ", " ">> \o s_span
    /\ IsSome(parsed)
    /\ Unwrapped(parsed).nodes = <<sel_div, sel_any, sel_span>>

====
